---- MODULE Spec2Model ----
(***************************************************************************)
(* Vehicle-damage audit service: the inference gateway with its adaptive   *)
(* batch size and quota backoff, the per-image post-processor and the      *)
(* consolidation pass.                                                     *)
(*                                                                         *)
(* Two builds of services/geminiService are modelled:                      *)
(*   "batched": src/unnamed/part_000 (analyzeVehicleCondition, module      *)
(*              global CURRENT_BATCH_SIZE, maxAttempts 5)                  *)
(*   "single":  src/services/geminiService.ts driven by src/App.tsx        *)
(*              (analyzeSingleImage per file under Promise.all,            *)
(*              maxAttempts 3, aggregateResults)                           *)
(* The post-processor of the V9.1 build (src/unnamed/part_001), with its   *)
(* polygon filter and hull gate, is modelled as a function and studied on  *)
(* its own in SpecPost, next to the post-processor of part_000.            *)
(* The run loop of part_001 is SpecV91; the benchmark of part_000          *)
(* (calculateIoU, runFullBenchmark) is studied as a function in SpecBench; *)
(* SpecLive is one run of the batched build under fairness.                *)
(* Image indices are 0-based as in the source; sequences are 1-based.      *)
(* Confidences are in hundredths (0.98 is 98).                             *)
(***************************************************************************)
EXTENDS Integers, Sequences, FiniteSets, TLC

\* ---------------------------------------------------------------- bounds
MaxFiles == 3
MaxRuns == 2
MaxExtra == 1
MaxIssues == 3
MaxImages == 2
MaxDets == 3
MaxPts == 3

\* ------------------------------------------------------ program constants
DEFAULT_BATCH_SIZE == 10
MIN_BATCH_SIZE == 1
QUOTA_COOLDOWN_MS == 61000
maxAttemptsBatched == 5
maxAttemptsSingle == 3

VARIABLES
  build,              \* which build of the service is loaded
  faults,             \* which class of failures the calls of this behaviour meet
  runs,               \* number of handleAnalyze invocations so far
  nFiles,             \* files.length of the current run
  CURRENT_BATCH_SIZE, \* module-level let of the batched build
  onQuotaStatus,      \* TRUE iff the caller supplied the observer
  pc,                 \* position of analyzeVehicleCondition
  i,                  \* loop offset of analyzeVehicleCondition
  batchSize,          \* const batchSize of the current loop iteration
  attempts,           \* attempts of the current retryWithDynamicScaling
  imageResults,       \* the run's list of ImageAnalysis
  consolidated,       \* consolidatedIssues of the returned AnalysisResult
  batches,            \* history: the latest logical batches, each with its event log
  inFlight,           \* number of provider calls issued and not yet settled
  submitted,          \* history: <<s, k>> when image k was sent by the batch starting at s
  answered,           \* history: images that were part of a call the provider answered
  anyFailed,          \* history: some logical batch of this run failed terminally
  overReturned,       \* history: some call of this run returned more results than images sent
  files,              \* App state `files` of the single-image build
  gw,                 \* per file: position and attempts of its analyzeSingleImage
  ppIn,               \* post-processor on its own: the parsed provider response
  ppIndex,            \* post-processor on its own: the index argument
  ppOut,              \* post-processor on its own: the ImageAnalysis returned, if any
  bResults,           \* benchmark on its own: the results argument
  bTruths,            \* benchmark on its own: the truths argument
  bReport,            \* benchmark on its own: the BenchmarkReport returned, if any
  ioP,                \* calculateIoU on its own: the argument poly1
  ioQ,                \* calculateIoU on its own: the argument poly2
  ioOut               \* calculateIoU on its own: the number returned, if any

\* chosen once and never changed by the service
fixed == <<build, faults>>

\* arguments and result of a post-processor call studied on its own
ppVars == <<ppIn, ppIndex, ppOut>>

\* arguments and result of a runFullBenchmark or calculateIoU call studied on
\* its own
bnVars == <<bResults, bTruths, bReport, ioP, ioQ, ioOut>>

\* no benchmark is being studied
BenchIdle ==
  /\ bResults = << >> /\ bTruths = << >> /\ bReport = << >>
  /\ ioP = << >> /\ ioQ = << >> /\ ioOut = << >>

vars == <<fixed, ppVars, bnVars, runs, nFiles, CURRENT_BATCH_SIZE, onQuotaStatus, pc, i,
          batchSize, attempts, imageResults, consolidated, batches, inFlight,
          submitted, answered, anyFailed, overReturned, files, gw>>

\* ---------------------------------------------------------------- helpers
Max(a, b) == IF a >= b THEN a ELSE b
Min(a, b) == IF a <= b THEN a ELSE b

RECURSIVE Pow2(_)
Pow2(k) == IF k = 0 THEN 1 ELSE 2 * Pow2(k - 1)

\* Math.ceil(a / b) for positive integers
CeilDiv(a, b) == (a + b - 1) \div b

\* ------------------------------------------------------- provider errors
\* err.message is modelled by the set of markers it contains
Errors ==
  { [name |-> "HTTP429", text |-> {"429"}],
    [name |-> "Network", text |-> {}] }

IsQuota(err) ==
  "429" \in err.text \/ "RESOURCE_EXHAUSTED" \in err.text \/ "quota" \in err.text

NoError == [name |-> "none", text |-> {}]

\* what JSON.parse throws inside the retried function (part_000 line 253,
\* geminiService.ts line 92); the message quotes the start of the response
\* text, so it can contain a quota marker
ParseErrors ==
  { [name |-> "SyntaxError", text |-> {"quota"}],
    [name |-> "SyntaxError", text |-> {}] }

FaultClasses == {"transport", "parse"}

\* the errors the retried function can throw in a behaviour of class fc
Thrown(fc) == IF fc = "transport" THEN Errors ELSE ParseErrors

\* ------------------------------------------------------------- event log
Ev(e, a, b) == [ev |-> e, a |-> a, b |-> b, err |-> NoError]
EvErr(e, err) == [ev |-> e, a |-> 0, b |-> 0, err |-> err]

\* ---------------------------------------------------------- raw detections
\* polygons in the normalised 0..1000 space
PolyIn == << <<1, 1>>, <<3, 1>>, <<1, 3>> >>
PolyHalf == << <<1, 1>>, <<2, 1>>, <<1, 2>> >>
PolyNotch == << <<6, 6>>, <<8, 6>>, <<6, 8>> >>
PolyOut == << <<12, 12>>, <<16, 12>>, <<12, 16>> >>
PolyTwo == << <<1, 1>>, <<3, 3>> >>
PolyNone == << >>

Raw(poly, conf) ==
  [ part |-> "bumper", issueType |-> "Scratch", severity |-> "Minor",
    confidence |-> conf, polygon_points |-> poly ]

RawA == Raw(PolyIn, 95)

RawIssueChoices == { <<RawA>> }

\* files.slice(from, from + size) as the set of indices it holds
SliceIdx(n, from, size) == { k \in 0..(n - 1) : k >= from /\ k < from + size }

\* --------------------------------------------------------- template strings
DigitChars == << "0", "1", "2", "3", "4", "5", "6", "7", "8", "9" >>

RECURSIVE Digits(_)
\* String(n) for a non-negative integer, one character per element
Digits(n) ==
  IF n < 10 THEN << DigitChars[n + 1] >>
  ELSE Digits(n \div 10) \o << DigitChars[(n % 10) + 1] >>

\* the template `${prefix}-${a}-${b}`
IdText(prefix, a, b) == << prefix, "-" >> \o Digits(a) \o << "-" >> \o Digits(b)

\* ------------------------------------------------ post-processor (batched)
\* one element of rawIssues: the map callback of postProcessImageAnalysis
PostProcessIssue(modelIssue, idx, index) ==
  [ id |-> IdText("TOPO", idx, index),
    part |-> IF modelIssue.part = "" THEN "Structural Zone" ELSE modelIssue.part,
    issueType |-> modelIssue.issueType,
    severity |-> modelIssue.severity,
    confidence |-> IF modelIssue.confidence = 0 THEN 98 ELSE modelIssue.confidence,
    status |-> "verified",
    sourceFileIndex |-> index,
    polygon_points |-> modelIssue.polygon_points,
    labor_hours |-> IF modelIssue.severity = "Critical" THEN 12 ELSE 5,
    refinish_hours |-> IF modelIssue.severity = "Critical" THEN 6 ELSE 3,
    estimated_cost |-> IF modelIssue.severity = "Critical" THEN 4500 ELSE 1200 ]

\* mutant: the batch offset is dropped from the index of the record
postProcessImageAnalysisNoOffset(rawIssues, index) ==
  [ imageIndex |-> 0,
    detectedIssues |->
      [ k \in 1..Len(rawIssues) |-> PostProcessIssue(rawIssues[k], k - 1, 0) ],
    audit_trail |-> << [ id |-> << "AUDIT-V160-" >> \o Digits(0),
                         stage |-> "Metrology", status |-> "passed" ] >> ]

postProcessImageAnalysis(rawIssues, index) ==
  [ imageIndex |-> index,
    detectedIssues |->
      [ k \in 1..Len(rawIssues) |-> PostProcessIssue(rawIssues[k], k - 1, index) ],
    audit_trail |-> << [ id |-> << "AUDIT-V160-" >> \o Digits(index),
                         stage |-> "Metrology", status |-> "passed" ] >> ]

\* ------------------------------------------------------ consolidation pass
SameKey(c, issue) == c.part = issue.part /\ c.issueType = issue.issueType

\* body of the inner forEach: find a match, push a new entity when there is none
ConsolidateIssue(cons, imgIdx, issue) ==
  IF \E k \in 1..Len(cons) : SameKey(cons[k], issue)
  THEN cons
  ELSE Append(cons,
         [ id |-> <<"ENTITY", Len(cons)>>,
           part |-> issue.part,
           issueType |-> issue.issueType,
           severity |-> issue.severity,
           total_instances |-> 1,
           evidence_indices |-> <<imgIdx>>,
           max_confidence |-> issue.confidence,
           total_labor_hours |-> issue.labor_hours,
           total_refinish_hours |-> issue.refinish_hours,
           consolidated_cost |-> issue.estimated_cost ])

\* F applied to the value of x, which is computed once
Then(x, F(_)) == CHOOSE out \in { F(v) : v \in {x} } : TRUE

RECURSIVE ConsolidateImage(_, _, _, _)
ConsolidateImage(cons, imgIdx, issues, k) ==
  IF k > Len(issues) THEN cons
  ELSE Then(ConsolidateIssue(cons, imgIdx, issues[k]),
            LAMBDA next : ConsolidateImage(next, imgIdx, issues, k + 1))

RECURSIVE ConsolidateFrom(_, _, _)
ConsolidateFrom(cons, ir, p) ==
  IF p > Len(ir) THEN cons
  ELSE Then(ConsolidateImage(cons, p - 1, ir[p].detectedIssues, 1),
            LAMBDA next : ConsolidateFrom(next, ir, p + 1))

ConsolidationPass(ir) == ConsolidateFrom(<<>>, ir, 1)

\* ------------------------------------------------- retryWithDynamicScaling
\* mutant: every error is retried, quota-class or not
CanRetryAnyError(isQuota, att, maxAtt) == att < maxAtt - 1

\* mutant: the retry guard is off by one
CanRetryOffByOne(isQuota, att, maxAtt) == isQuota /\ att < maxAtt

\* line 84: if (isQuota && attempts < maxAttempts - 1)
CanRetry(isQuota, att, maxAtt) == isQuota /\ att < maxAtt - 1

\* mutant: a quota error leaves the batch size as it is
ShrinkNone(c) == c

\* mutant: the batch size is decremented instead of halved
ShrinkByOne(c) == Max(MIN_BATCH_SIZE, c - 1)

\* mutant: the halved batch size is not clamped to the floor
ShrinkNoFloor(c) == c \div 2

\* line 86: Math.max(MIN_BATCH_SIZE, Math.floor(CURRENT_BATCH_SIZE / 2))
ShrinkBatchSize(c) == Max(MIN_BATCH_SIZE, c \div 2)

\* mutant: the observer is given milliseconds instead of whole seconds
QuotaNoticeMs(obs, waitMs) ==
  IF obs THEN << Ev("notify", waitMs, 1) >> ELSE << >>

\* the onQuotaError callback built by analyzeVehicleCondition (lines 254-256)
QuotaNotice(obs, waitMs) ==
  IF obs THEN << Ev("notify", CeilDiv(waitMs, 1000), 1) >> ELSE << >>

\* line 258: if (onQuotaStatus) onQuotaStatus(false, 0)
SuccessNotice(obs) == IF obs THEN << Ev("notify", 0, 0) >> ELSE << >>

\* line 88: the backoff sleep (base duration; the random jitter is not modelled)
SleepEvent == Ev("sleep", QUOTA_COOLDOWN_MS, 0)

\* ------------------------------------------------ analyzeVehicleCondition
CurBatch == batches[Len(batches)]

WithCur(hist, status, events) ==
  [ hist EXCEPT ![Len(hist)] =
      [ @ EXCEPT !.status = status, !.log = @ \o events ] ]

\* the history keeps the current logical batch and the one before it
LastTwo(hist) ==
  IF Len(hist) > 2 THEN SubSeq(hist, Len(hist) - 1, Len(hist)) ELSE hist

\* the images of activeBatchFiles (line 199), tagged with the batch's offset
Sent(n, start, from, size) == { <<start, k>> : k \in SliceIdx(n, from, size) }

\* the head of the while loop: start the next logical batch and issue its
\* first provider call, or leave the loop, consolidate and return
ContinueLoop(n, c, off, ir, hist, fl, sub) ==
  /\ i' = off
  /\ imageResults' = ir
  /\ IF off < n
     THEN /\ pc' = "calling"
          /\ batchSize' = c
          /\ attempts' = 0
          /\ batches' = LastTwo(Append(hist,
               [ start |-> off,
                 len |-> Cardinality(SliceIdx(n, off, c)),
                 status |-> "active",
                 log |-> << Ev("call", off, c) >> ]))
          /\ inFlight' = fl + 1
          /\ submitted' = sub \cup Sent(n, off, off, c)
          /\ consolidated' = << >>
     ELSE /\ pc' = "done"
          /\ batchSize' = batchSize
          /\ attempts' = attempts
          /\ batches' = hist
          /\ inFlight' = fl
          /\ submitted' = sub
          /\ consolidated' = ConsolidationPass(ir)

\* mutant: the offset moves on by one image
AdvanceOffsetOne(off, len) == off + 1

\* lines 264 and 269: i += batchFiles.length
AdvanceOffset(off, len) == off + len

StartRun ==
  /\ build = "batched"
  /\ pc \in {"idle", "done"}
  /\ runs < MaxRuns
  /\ \E n \in 1..MaxFiles, obs \in BOOLEAN :
       /\ nFiles' = n
       /\ onQuotaStatus' = obs
       /\ runs' = runs + 1
       /\ ContinueLoop(n, CURRENT_BATCH_SIZE, 0, << >>, << >>, inFlight, {})
  /\ anyFailed' = FALSE
  /\ overReturned' = FALSE
  /\ answered' = {}
  /\ UNCHANGED <<fixed, ppVars, bnVars, CURRENT_BATCH_SIZE, files, gw>>

\* the awaited provider call resolves; batch_results holds r entries
ProviderSuccess ==
  /\ build = "batched"
  /\ pc = "calling"
  /\ LET sent == Cardinality(SliceIdx(nFiles, i, CURRENT_BATCH_SIZE))
     IN \E r \in 0..(sent + MaxExtra) :
          \E raw \in [1..r -> RawIssueChoices] :
            /\ imageResults' = imageResults \o
                 [ k \in 1..r |-> postProcessImageAnalysis(raw[k], i + (k - 1)) ]
            /\ batches' = WithCur(batches, "ok",
                            << Ev("ok", r, 0) >> \o SuccessNotice(onQuotaStatus))
            /\ overReturned' = (overReturned \/ r > sent)
  /\ i' = AdvanceOffset(i, CurBatch.len)
  /\ pc' = "pause"
  /\ inFlight' = inFlight - 1
  /\ answered' = answered \cup SliceIdx(nFiles, i, CURRENT_BATCH_SIZE)
  /\ UNCHANGED <<fixed, ppVars, bnVars, runs, nFiles, CURRENT_BATCH_SIZE, onQuotaStatus,
                 batchSize, attempts, consolidated, submitted, anyFailed,
                 files, gw>>

\* line 265 ends: back to the head of the loop
PauseEnd ==
  /\ build = "batched"
  /\ pc = "pause"
  /\ ContinueLoop(nFiles, CURRENT_BATCH_SIZE, i, imageResults, batches, inFlight,
                  submitted)
  /\ UNCHANGED <<fixed, ppVars, bnVars, runs, nFiles, CURRENT_BATCH_SIZE, onQuotaStatus, answered,
                 anyFailed, overReturned, files, gw>>

\* the provider call rejects with a quota-class error and attempts remain
QuotaRetry ==
  /\ build = "batched"
  /\ pc = "calling"
  /\ \E err \in Thrown(faults) :
       /\ CanRetry(IsQuota(err), attempts, maxAttemptsBatched)
       /\ batches' = WithCur(batches, "active",
                       << EvErr("fail", err) >>
                       \o QuotaNotice(onQuotaStatus, QUOTA_COOLDOWN_MS)
                       \o << SleepEvent >>)
  /\ attempts' = attempts + 1
  /\ CURRENT_BATCH_SIZE' = ShrinkBatchSize(CURRENT_BATCH_SIZE)
  /\ pc' = "sleeping"
  /\ inFlight' = inFlight - 1
  /\ UNCHANGED <<fixed, ppVars, bnVars, runs, nFiles, onQuotaStatus, i, batchSize,
                 imageResults, consolidated, submitted, answered, anyFailed,
                 overReturned, files, gw>>

\* mutant: the batch failure is not caught and ends the run without a result
BatchFailureAborts(err, events, fl) ==
  /\ pc' = "done"
  /\ i' = i
  /\ imageResults' = << >>
  /\ consolidated' = << >>
  /\ batches' = WithCur(batches, "failed", events \o << EvErr("throw", err) >>)
  /\ inFlight' = fl
  /\ anyFailed' = TRUE
  /\ UNCHANGED <<batchSize, attempts, submitted>>

\* mutant: the catch block does not advance the offset
BatchFailureStays(err, events, fl) ==
  /\ ContinueLoop(nFiles, CURRENT_BATCH_SIZE, i, imageResults,
                  WithCur(batches, "failed", events \o << EvErr("throw", err) >>),
                  fl, submitted)
  /\ anyFailed' = TRUE

\* the catch block of analyzeVehicleCondition (lines 267-270), then the loop head
BatchFailure(err, events, fl) ==
  /\ ContinueLoop(nFiles, CURRENT_BATCH_SIZE, AdvanceOffset(i, CurBatch.len),
                  imageResults,
                  WithCur(batches, "failed", events \o << EvErr("throw", err) >>),
                  fl, submitted)
  /\ anyFailed' = TRUE

\* the provider call rejects and retryWithDynamicScaling rethrows (line 91)
TerminalFailure ==
  /\ build = "batched"
  /\ pc = "calling"
  /\ \E err \in Thrown(faults) :
       /\ ~ CanRetry(IsQuota(err), attempts, maxAttemptsBatched)
       /\ BatchFailure(err, << EvErr("fail", err) >>, inFlight - 1)
  /\ UNCHANGED <<fixed, ppVars, bnVars, runs, nFiles, CURRENT_BATCH_SIZE, onQuotaStatus, answered,
                 overReturned, files, gw>>

\* line 94: the error thrown when the while loop is left
MaxRetryError == [name |-> "MaxRetry", text |-> {}]

\* the backoff sleep ends: `continue`, the while test, then the next call
WakeFromSleep ==
  /\ build = "batched"
  /\ pc = "sleeping"
  /\ IF attempts < maxAttemptsBatched
     THEN /\ batches' = WithCur(batches, "active",
                          << Ev("call", i, CURRENT_BATCH_SIZE) >>)
          /\ pc' = "calling"
          /\ inFlight' = inFlight + 1
          /\ submitted' = submitted \cup Sent(nFiles, CurBatch.start, i, CURRENT_BATCH_SIZE)
          /\ UNCHANGED <<i, batchSize, attempts, imageResults, consolidated, anyFailed>>
     ELSE BatchFailure(MaxRetryError, << >>, inFlight)
  /\ UNCHANGED <<fixed, ppVars, bnVars, runs, nFiles, CURRENT_BATCH_SIZE, onQuotaStatus, answered,
                 overReturned, files, gw>>

\* ======================= single-image build: geminiService.ts and App.tsx
\* one element of rawIssues in postProcessImageAnalysis of geminiService.ts
PostProcessIssueSingle(modelIssue, idx, index) ==
  [ id |-> <<"GLOBAL-V37", index, idx>>,
    part |-> IF modelIssue.part = "" THEN "Component" ELSE modelIssue.part,
    issueType |-> modelIssue.issueType,
    severity |-> modelIssue.severity,
    confidence |-> 99,
    status |-> "verified",
    sourceFileIndex |-> index,
    polygon_points |-> modelIssue.polygon_points,
    labor_hours |-> 7,
    refinish_hours |-> 5,
    estimated_cost |-> 1850 ]

postProcessImageAnalysisSingle(rawIssues, index) ==
  [ imageIndex |-> index,
    detectedIssues |->
      [ k \in 1..Len(rawIssues) |-> PostProcessIssueSingle(rawIssues[k], k - 1, index) ] ]

\* body of the inner forEach of aggregateResults: every issue is pushed
AggregateIssue(cons, imgIdx, issue) ==
  Append(cons,
    [ id |-> <<"C37", Len(cons)>>,
      part |-> issue.part,
      issueType |-> issue.issueType,
      severity |-> issue.severity,
      total_instances |-> 1,
      evidence_indices |-> <<imgIdx>>,
      max_confidence |-> 99,
      total_labor_hours |-> issue.labor_hours,
      total_refinish_hours |-> issue.refinish_hours,
      consolidated_cost |-> issue.estimated_cost ])

RECURSIVE AggregateImage(_, _, _, _)
AggregateImage(cons, imgIdx, issues, k) ==
  IF k > Len(issues) THEN cons
  ELSE AggregateImage(AggregateIssue(cons, imgIdx, issues[k]), imgIdx, issues, k + 1)

RECURSIVE AggregateFrom(_, _, _)
AggregateFrom(cons, ir, p) ==
  IF p > Len(ir) THEN cons
  ELSE AggregateFrom(AggregateImage(cons, p - 1, ir[p].detectedIssues, 1), ir, p + 1)

aggregateResults(ir) == AggregateFrom(<<>>, ir, 1)

\* the onQuotaError callback built by analyzeSingleImage (line 103); App.tsx
\* always supplies the observer
QuotaNoticeSingle(waitMs) == << Ev("notify", CeilDiv(waitMs, 1000), 1) >>

\* analyzeSingleImage reports nothing after a successful call (lines 103-105)
SuccessNoticeSingle == << >>

\* line 22: the backoff sleep of the single-image build
SleepEventSingle == Ev("sleep", QUOTA_COOLDOWN_MS + 2000, 0)

Settled(g) == g.pc \in {"skip", "ok", "failed"}

RECURSIVE AnalyzedFrom(_, _)
\* updatedFiles.map(f => f.analysis).filter(a => !!a)
AnalyzedFrom(fs, k) ==
  IF k > Len(fs) THEN << >>
  ELSE fs[k].analysis \o AnalyzedFrom(fs, k + 1)

\* App.tsx lines 63-83, run when Promise.all resolves
FinishSingle(fs, g) ==
  IF \A k \in DOMAIN g : Settled(g[k])
  THEN LET analyzedResults == AnalyzedFrom(fs, 1)
       IN /\ imageResults' = analyzedResults
          /\ IF Len(analyzedResults) = 0 /\ \E k \in DOMAIN fs : fs[k].type = "image"
             THEN pc' = "error" /\ consolidated' = consolidated
             ELSE /\ pc' = "done"
                  /\ consolidated' = IF Len(analyzedResults) > 0
                                     THEN aggregateResults(analyzedResults)
                                     ELSE consolidated
  ELSE pc' = "running" /\ UNCHANGED <<imageResults, consolidated>>

FileTypes == {"image", "video"}

\* handleAnalyze of App.tsx up to the first await of every mapped callback
StartRunSingle ==
  /\ build = "single"
  /\ pc \in {"idle", "done", "error"}
  /\ runs < MaxRuns
  /\ \E n \in 1..MaxFiles :
       \E types \in [1..n -> FileTypes] :
         LET fs == IF runs = 0
                   THEN [ k \in 1..n |-> [type |-> types[k], analysis |-> << >>] ]
                   ELSE files
             skip(k) == Len(fs[k].analysis) > 0 \/ fs[k].type = "video"
             g == [ k \in 1..Len(fs) |->
                      [pc |-> IF skip(k) THEN "skip" ELSE "calling", attempts |-> 0] ]
         IN /\ (runs > 0 => n = Len(files) /\ types = [ k \in 1..n |-> files[k].type ])
            /\ files' = fs
            /\ nFiles' = Len(fs)
            /\ gw' = g
            /\ batches' = [ k \in 1..Len(fs) |->
                 [ start |-> k - 1, len |-> 1,
                   status |-> IF skip(k) THEN "skipped" ELSE "active",
                   log |-> IF skip(k) THEN << >> ELSE << Ev("call", k - 1, 1) >> ] ]
            /\ inFlight' = Cardinality({ k \in 1..Len(fs) : ~ skip(k) })
            /\ submitted' = { <<k - 1, k - 1>> : k \in { j \in 1..Len(fs) : ~ skip(j) } }
            /\ FinishSingle(fs, g)
  /\ runs' = runs + 1
  /\ onQuotaStatus' = TRUE
  /\ anyFailed' = FALSE
  /\ overReturned' = FALSE
  /\ answered' = {}
  /\ UNCHANGED <<fixed, ppVars, bnVars, CURRENT_BATCH_SIZE, i, batchSize, attempts>>

LogTo(hist, k, status, events) ==
  [ hist EXCEPT ![k] = [ @ EXCEPT !.status = status, !.log = @ \o events ] ]

\* the provider call of file k resolves; analyzeSingleImage returns its analysis
SingleSuccess ==
  /\ build = "single"
  /\ pc = "running"
  /\ \E k \in DOMAIN gw :
       /\ gw[k].pc = "calling"
       /\ \E raw \in RawIssueChoices :
            LET fs == [ files EXCEPT ![k].analysis =
                          << postProcessImageAnalysisSingle(raw, k - 1) >> ]
                g == [ gw EXCEPT ![k].pc = "ok" ]
            IN /\ files' = fs
               /\ gw' = g
               /\ batches' = LogTo(batches, k, "ok",
                               << Ev("ok", 1, 0) >> \o SuccessNoticeSingle)
               /\ answered' = answered \cup {k - 1}
               /\ FinishSingle(fs, g)
  /\ inFlight' = inFlight - 1
  /\ UNCHANGED <<fixed, ppVars, bnVars, runs, nFiles, CURRENT_BATCH_SIZE, onQuotaStatus, i,
                 batchSize, attempts, submitted, anyFailed, overReturned>>

\* the provider call of file k rejects with a quota-class error, attempts remain
SingleQuotaRetry ==
  /\ build = "single"
  /\ pc = "running"
  /\ \E k \in DOMAIN gw :
       /\ gw[k].pc = "calling"
       /\ \E err \in Thrown(faults) :
            /\ CanRetry(IsQuota(err), gw[k].attempts, maxAttemptsSingle)
            /\ gw' = [ gw EXCEPT ![k] = [pc |-> "sleeping", attempts |-> @.attempts + 1] ]
            /\ batches' = LogTo(batches, k, "active",
                            << EvErr("fail", err) >>
                            \o QuotaNoticeSingle(QUOTA_COOLDOWN_MS)
                            \o << SleepEventSingle >>)
  /\ inFlight' = inFlight - 1
  /\ UNCHANGED <<fixed, ppVars, bnVars, runs, nFiles, CURRENT_BATCH_SIZE, onQuotaStatus, pc, i,
                 batchSize, attempts, imageResults, consolidated, submitted,
                 answered, anyFailed, overReturned, files>>

\* line 28: the error thrown when the while loop is left
SynthesisError == [name |-> "SynthesisFailed", text |-> {}]

\* the backoff sleep of file k ends: the while test, then the next call
SingleWake ==
  /\ build = "single"
  /\ pc = "running"
  /\ \E k \in DOMAIN gw :
       /\ gw[k].pc = "sleeping"
       /\ IF gw[k].attempts < maxAttemptsSingle
          THEN /\ gw' = [ gw EXCEPT ![k].pc = "calling" ]
               /\ batches' = LogTo(batches, k, "active", << Ev("call", k - 1, 1) >>)
               /\ inFlight' = inFlight + 1
               /\ UNCHANGED <<pc, imageResults, consolidated, anyFailed>>
          ELSE LET g == [ gw EXCEPT ![k].pc = "failed" ]
               IN /\ gw' = g
                  /\ batches' = LogTo(batches, k, "failed",
                                  << EvErr("throw", SynthesisError) >>)
                  /\ inFlight' = inFlight
                  /\ anyFailed' = TRUE
                  /\ FinishSingle(files, g)
  /\ UNCHANGED <<fixed, ppVars, bnVars, runs, nFiles, CURRENT_BATCH_SIZE, onQuotaStatus, i,
                 batchSize, attempts, submitted, answered, overReturned, files>>

\* the provider call of file k rejects and the error is rethrown (line 25);
\* the catch of App.tsx (lines 57-60) returns the file without analysis
SingleTerminalFailure ==
  /\ build = "single"
  /\ pc = "running"
  /\ \E k \in DOMAIN gw :
       /\ gw[k].pc = "calling"
       /\ \E err \in Thrown(faults) :
            /\ ~ CanRetry(IsQuota(err), gw[k].attempts, maxAttemptsSingle)
            /\ LET g == [ gw EXCEPT ![k].pc = "failed" ]
               IN /\ gw' = g
                  /\ batches' = LogTo(batches, k, "failed",
                                  << EvErr("fail", err), EvErr("throw", err) >>)
                  /\ FinishSingle(files, g)
  /\ inFlight' = inFlight - 1
  /\ anyFailed' = TRUE
  /\ UNCHANGED <<fixed, ppVars, bnVars, runs, nFiles, CURRENT_BATCH_SIZE, onQuotaStatus, i,
                 batchSize, attempts, submitted, answered, overReturned, files>>

\* ======================== post-processor of the V9.1 build (part_001)
SetMin(S) == CHOOSE m \in S : \A e \in S : m <= e
SetMax(S) == CHOOSE m \in S : \A e \in S : m >= e

\* getBoundingBox: the running minima start at 1000 and the maxima at 0
getBoundingBox(points) ==
  IF Len(points) = 0 THEN [x |-> 0, y |-> 0, w |-> 0, h |-> 0]
  ELSE LET minX == SetMin({1000} \cup { points[k][1] : k \in DOMAIN points })
           maxX == SetMax({0} \cup { points[k][1] : k \in DOMAIN points })
           minY == SetMin({1000} \cup { points[k][2] : k \in DOMAIN points })
           maxY == SetMax({0} \cup { points[k][2] : k \in DOMAIN points })
       IN [x |-> minX, y |-> minY, w |-> maxX - minX, h |-> maxY - minY]

\* line 67: [box.x + box.w / 2, box.y + box.h / 2], kept exact by doubling
Centroid2(box) == << 2 * box.x + box.w, 2 * box.y + box.h >>

\* lines 31-33 for one edge (pi, pj) and the doubled point p2:
\*   ((yi > py) !== (yj > py)) && (px < (xj - xi) * (py - yi) / (yj - yi) + xi)
\* the division is removed by multiplying with yj - yi, which is not 0 when
\* the first operand holds
Intersect(p2, pi, pj) ==
  LET xi == 2 * pi[1]
      yi == 2 * pi[2]
      xj == 2 * pj[1]
      yj == 2 * pj[2]
  IN /\ (yi > p2[2]) # (yj > p2[2])
     /\ IF yj - yi > 0
        THEN (p2[1] - xi) * (yj - yi) < (xj - xi) * (p2[2] - yi)
        ELSE (p2[1] - xi) * (yj - yi) > (xj - xi) * (p2[2] - yi)

RECURSIVE RayCast(_, _, _, _)
\* the for loop of isPointInPolygon: i runs over the points, j is the one before
RayCast(p2, polygon, k, isInside) ==
  IF k > Len(polygon) THEN isInside
  ELSE LET j == IF k = 1 THEN Len(polygon) ELSE k - 1
       IN RayCast(p2, polygon, k + 1,
                  IF Intersect(p2, polygon[k], polygon[j]) THEN ~ isInside ELSE isInside)

isPointInPolygon(p2, polygon) == RayCast(p2, polygon, 1, FALSE)

\* mutant: the containment test always succeeds
IsWithinHullAlways(rawPts, hull) == TRUE

\* lines 66-68
IsWithinHull(rawPts, hull) ==
  IF Len(hull) > 2
  THEN isPointInPolygon(Centroid2(getBoundingBox(rawPts)), hull)
  ELSE TRUE

\* mutant: the number of issues kept so far is left out of the id
AnomalyIdFixed(kept, index) == IdText("ANOMALY", 0, index)

\* line 75: `ANOMALY-${finalIssues.length}-${index}`
AnomalyId(kept, index) == IdText("ANOMALY", kept, index)

\* line 77: issue.confidence > 0.9 ? 'verified' : 'provisional'
StatusOf(confidence) == IF confidence > 90 THEN "verified" ELSE "provisional"

\* lines 73-93: the element pushed to finalIssues
ValidatedIssueV91(issue, kept, index, isWithinHull) ==
  [ id |-> AnomalyId(kept, index),
    part |-> issue.part,
    issueType |-> issue.issueType,
    severity |-> issue.severity,
    confidence |-> issue.confidence,
    polygon_points |-> issue.polygon_points,
    sourceFileIndex |-> index,
    status |-> StatusOf(issue.confidence),
    containment_ratio |-> IF isWithinHull THEN 100 ELSE 0 ]

RECURSIVE GateIssues(_, _, _, _, _)
\* the for-of loop of lines 62-94
GateIssues(issues, k, hull, index, finalIssues) ==
  IF k > Len(issues) THEN finalIssues
  ELSE LET rawPts == issues[k].polygon_points
       IN IF Len(rawPts) < 3
          THEN GateIssues(issues, k + 1, hull, index, finalIssues)
          ELSE LET isWithinHull == IsWithinHull(rawPts, hull)
               IN IF ~ isWithinHull /\ Len(hull) > 2
                  THEN GateIssues(issues, k + 1, hull, index, finalIssues)
                  ELSE GateIssues(issues, k + 1, hull, index,
                         Append(finalIssues,
                           ValidatedIssueV91(issues[k], Len(finalIssues), index,
                                             isWithinHull)))

\* lines 43-60: the two entries pushed before the issues are looked at
AuditTrailV91(analysis, index) ==
  << [ id |-> << "AUDIT-ADV-" >> \o Digits(index),
       stage |-> "Adversarial",
       status |-> IF analysis.is_screen_detected THEN "flagged" ELSE "passed" ],
     [ id |-> << "AUDIT-HULL-" >> \o Digits(index),
       stage |-> "Hull",
       status |-> IF Len(analysis.vehicle_hull) > 10 THEN "passed" ELSE "warning" ] >>

postProcessImageAnalysisV91(analysis, index) ==
  [ imageIndex |-> index,
    vehicle_hull |-> analysis.vehicle_hull,
    detectedIssues |-> GateIssues(analysis.detectedIssues, 1, analysis.vehicle_hull,
                                  index, << >>),
    audit_trail |-> AuditTrailV91(analysis, index) ]

\* ------------------------------------------------------------ specification
\* no response is being post-processed on its own
NoAnalysis == [vehicle_hull |-> << >>, is_screen_detected |-> FALSE, detectedIssues |-> << >>]

\* the gateway before its first run: module initialisation and App's useState
Idle ==
  /\ runs = 0
  /\ nFiles = 0
  /\ CURRENT_BATCH_SIZE = DEFAULT_BATCH_SIZE
  /\ onQuotaStatus = FALSE
  /\ pc = "idle"
  /\ i = 0
  /\ batchSize = DEFAULT_BATCH_SIZE
  /\ attempts = 0
  /\ imageResults = << >>
  /\ consolidated = << >>
  /\ batches = << >>
  /\ inFlight = 0
  /\ submitted = {}
  /\ answered = {}
  /\ anyFailed = FALSE
  /\ overReturned = FALSE
  /\ files = << >>
  /\ gw = << >>

Init ==
  /\ build \in {"batched", "single"}
  /\ faults \in FaultClasses
  /\ Idle
  /\ ppIn = NoAnalysis
  /\ ppIndex = 0
  /\ ppOut = << >>
  /\ BenchIdle

Next ==
  \/ StartRun
  \/ ProviderSuccess
  \/ PauseEnd
  \/ QuotaRetry
  \/ TerminalFailure
  \/ WakeFromSleep
  \/ StartRunSingle
  \/ SingleSuccess
  \/ SingleQuotaRetry
  \/ SingleWake
  \/ SingleTerminalFailure

Spec == Init /\ [][Next]_vars

\* ------------------------------- one run of the batched build, with fairness
\* the batch sizes the module global can hold when a run starts
BatchSizes == { ShrinkBatchSize(DEFAULT_BATCH_SIZE), DEFAULT_BATCH_SIZE,
               ShrinkBatchSize(ShrinkBatchSize(DEFAULT_BATCH_SIZE)), MIN_BATCH_SIZE }

\* the last run the bound allows; CURRENT_BATCH_SIZE is what earlier runs left
InitLive ==
  /\ build = "batched"
  /\ faults \in FaultClasses
  /\ runs = MaxRuns - 1
  /\ nFiles = 0
  /\ CURRENT_BATCH_SIZE \in BatchSizes
  /\ onQuotaStatus = FALSE
  /\ pc = "idle"
  /\ i = 0
  /\ batchSize = DEFAULT_BATCH_SIZE
  /\ attempts = 0
  /\ imageResults = << >>
  /\ consolidated = << >>
  /\ batches = << >>
  /\ inFlight = 0
  /\ submitted = {}
  /\ answered = {}
  /\ anyFailed = FALSE
  /\ overReturned = FALSE
  /\ files = << >>
  /\ gw = << >>
  /\ ppIn = NoAnalysis
  /\ ppIndex = 0
  /\ ppOut = << >>
  /\ BenchIdle

NextLive ==
  \/ StartRun
  \/ ProviderSuccess
  \/ PauseEnd
  \/ QuotaRetry
  \/ TerminalFailure
  \/ WakeFromSleep

\* an awaited provider call settles, and the timers of lines 88 and 265 fire
Fairness ==
  /\ WF_vars(ProviderSuccess \/ QuotaRetry \/ TerminalFailure)
  /\ WF_vars(WakeFromSleep)
  /\ WF_vars(PauseEnd)

SpecLive == InitLive /\ [][NextLive]_vars /\ Fairness

\* ------------------------------------- the post-processors on their own
HullTwo == << <<0, 0>>, <<10, 10>> >>
HullSquare == << <<0, 0>>, <<10, 0>>, <<10, 10>>, <<0, 10>> >>
HullL == << <<0, 0>>, <<10, 0>>, <<10, 4>>, <<4, 4>>, <<4, 10>>, <<0, 10>> >>

Hulls == { << >>, HullTwo, HullSquare, HullL }

RawIssues ==
  { Raw(PolyIn, 95), Raw(PolyHalf, 90), Raw(PolyNotch, 80),
    Raw(PolyOut, 95), Raw(PolyTwo, 95), Raw(PolyNone, 90) }

IndexChoices == {0, 10}

SeqUpTo(S, n) == UNION { [1..m -> S] : m \in 0..n }

RawAnalyses ==
  [ vehicle_hull : Hulls,
    is_screen_detected : BOOLEAN,
    detectedIssues : SeqUpTo(RawIssues, MaxIssues) ]

\* the post-processor of the given build applied to a parsed response
PostProcessOf(b, analysis, index) ==
  IF b = "V9.1"
  THEN postProcessImageAnalysisV91(analysis, index)
  ELSE postProcessImageAnalysis(analysis.detectedIssues, index)

mainVars == <<faults, runs, nFiles, CURRENT_BATCH_SIZE, onQuotaStatus, pc, i,
              batchSize, attempts, imageResults, consolidated, batches, inFlight,
              submitted, answered, anyFailed, overReturned, files, gw>>

InitPost ==
  /\ build \in {"V9.1", "batched"}
  /\ faults = "transport"
  /\ Idle
  /\ ppIn \in RawAnalyses
  /\ ppIndex \in IndexChoices
  /\ ppOut = << >>
  /\ BenchIdle

\* part_001 line 204: postProcessImageAnalysis(parsed, i)
PostProcessV91 ==
  /\ build = "V9.1"
  /\ ppOut = << >>
  /\ ppOut' = << PostProcessOf(build, ppIn, ppIndex) >>
  /\ UNCHANGED <<build, ppIn, ppIndex, bnVars, mainVars>>

\* part_000 line 261: postProcessImageAnalysis(res, i + idx, ...)
PostProcessV16 ==
  /\ build = "batched"
  /\ ppOut = << >>
  /\ ppOut' = << PostProcessOf(build, ppIn, ppIndex) >>
  /\ UNCHANGED <<build, ppIn, ppIndex, bnVars, mainVars>>

NextPost == PostProcessV91 \/ PostProcessV16

SpecPost == InitPost /\ [][NextPost]_vars

\* ================= the run loop of the V9.1 build (part_001 lines 110-254)
\* the inner forEach body of the consolidation pass (lines 213-229)
ConsolidateIssueV91(cons, imgIdx, issue) ==
  IF \E k \in 1..Len(cons) : SameKey(cons[k], issue)
  THEN cons
  ELSE Append(cons,
         [ id |-> << "ENTITY-" >> \o Digits(Len(cons)),
           part |-> issue.part,
           issueType |-> issue.issueType,
           severity |-> issue.severity,
           total_instances |-> 1,
           evidence_indices |-> <<imgIdx>>,
           max_confidence |-> issue.confidence,
           consolidated_cost |-> 0 ])

RECURSIVE ConsolidateImageV91(_, _, _, _)
ConsolidateImageV91(cons, imgIdx, issues, k) ==
  IF k > Len(issues) THEN cons
  ELSE ConsolidateImageV91(ConsolidateIssueV91(cons, imgIdx, issues[k]),
                           imgIdx, issues, k + 1)

RECURSIVE ConsolidateFromV91(_, _, _)
ConsolidateFromV91(cons, ir, p) ==
  IF p > Len(ir) THEN cons
  ELSE ConsolidateFromV91(ConsolidateImageV91(cons, p - 1, ir[p].detectedIssues, 1),
                          ir, p + 1)

ConsolidationPassV91(ir) == ConsolidateFromV91(<<>>, ir, 1)

\* the parsed responses the provider can give for one image
ResponsesV91 ==
  { [ vehicle_hull |-> HullSquare, is_screen_detected |-> FALSE, detectedIssues |-> d ] :
      d \in { << >>, << Raw(PolyIn, 95) >>, << Raw(PolyIn, 95), Raw(PolyOut, 95) >> } }

\* the head of the for loop: the provider call for image `off`, or the
\* consolidation pass and the return
ContinueLoopV91(n, off, ir, fl) ==
  /\ i' = off
  /\ imageResults' = ir
  /\ IF off < n
     THEN /\ pc' = "calling"
          /\ inFlight' = fl + 1
          /\ consolidated' = << >>
     ELSE /\ pc' = "done"
          /\ inFlight' = fl
          /\ consolidated' = ConsolidationPassV91(ir)

\* the variables the V9.1 build has no counterpart for
unusedV91 == <<CURRENT_BATCH_SIZE, onQuotaStatus, batchSize, attempts, batches,
               submitted, answered, overReturned, files, gw>>

\* handleAnalyze of the V9.1 App calls analyzeVehicleCondition(files, caseDetails)
StartRunV91 ==
  /\ build = "V9.1"
  /\ pc \in {"idle", "done", "error"}
  /\ runs < MaxRuns
  /\ \E n \in 1..MaxFiles :
       /\ nFiles' = n
       /\ ContinueLoopV91(n, 0, << >>, inFlight)
  /\ runs' = runs + 1
  /\ anyFailed' = FALSE
  /\ UNCHANGED <<fixed, ppVars, bnVars, unusedV91>>

\* lines 202-204: the call resolves, the text parses, the record is pushed
ResponseV91 ==
  /\ build = "V9.1"
  /\ pc = "calling"
  /\ \E parsed \in ResponsesV91 :
       ContinueLoopV91(nFiles, i + 1,
                       Append(imageResults, postProcessImageAnalysisV91(parsed, i)),
                       inFlight - 1)
  /\ UNCHANGED <<fixed, ppVars, bnVars, unusedV91, runs, nFiles, anyFailed>>

\* lines 205-207: JSON.parse throws, the catch logs it and the loop goes on
ParseFailureV91 ==
  /\ build = "V9.1"
  /\ pc = "calling"
  /\ faults = "parse"
  /\ ContinueLoopV91(nFiles, i + 1, imageResults, inFlight - 1)
  /\ anyFailed' = TRUE
  /\ UNCHANGED <<fixed, ppVars, bnVars, unusedV91, runs, nFiles>>

\* line 123: the awaited generateContent rejects outside any try, so
\* analyzeVehicleCondition rejects and handleAnalyze shows the error
ProviderErrorV91 ==
  /\ build = "V9.1"
  /\ pc = "calling"
  /\ faults = "transport"
  /\ pc' = "error"
  /\ inFlight' = inFlight - 1
  /\ anyFailed' = TRUE
  /\ UNCHANGED <<fixed, ppVars, bnVars, unusedV91, runs, nFiles, i, imageResults, consolidated>>

InitV91 ==
  /\ build = "V9.1"
  /\ faults \in FaultClasses
  /\ Idle
  /\ ppIn = NoAnalysis
  /\ ppIndex = 0
  /\ ppOut = << >>
  /\ BenchIdle

NextV91 == StartRunV91 \/ ResponseV91 \/ ParseFailureV91 \/ ProviderErrorV91

SpecV91 == InitV91 /\ [][NextV91]_vars

\* ============================ benchmarkService (part_000 lines 1-59)
\* JavaScript numbers that are quotients of integers are kept as reduced
\* fractions <<numerator, denominator>>; floating-point rounding is not modelled
RECURSIVE GCD(_, _)
GCD(a, b) == IF b = 0 THEN a ELSE GCD(b, a % b)

Abs(a) == IF a < 0 THEN 0 - a ELSE a

Rat(n, d) ==
  LET g == GCD(Abs(n), Abs(d))
      sg == IF d < 0 THEN 0 - 1 ELSE 1
  IN << (sg * n) \div g, (sg * d) \div g >>

RInt(n) == << n, 1 >>
RAdd(p, q) ==
  Then(p, LAMBDA a : Then(q, LAMBDA b : Rat(a[1] * b[2] + b[1] * a[2], a[2] * b[2])))
RMul(p, q) ==
  Then(p, LAMBDA a : Then(q, LAMBDA b : Rat(a[1] * b[1], a[2] * b[2])))
RDiv(p, q) ==
  Then(p, LAMBDA a : Then(q, LAMBDA b : Rat(a[1] * b[2], a[2] * b[1])))
RGt(p, q) ==
  Then(p, LAMBDA a : Then(q, LAMBDA b : a[1] * b[2] > b[1] * a[2]))

\* getBox of calculateIoU (lines 4-11): no special case for an empty list
getBox(p) ==
  [ minX |-> SetMin({1000} \cup { p[k][1] : k \in DOMAIN p }),
    maxX |-> SetMax({0} \cup { p[k][1] : k \in DOMAIN p }),
    minY |-> SetMin({1000} \cup { p[k][2] : k \in DOMAIN p }),
    maxY |-> SetMax({0} \cup { p[k][2] : k \in DOMAIN p }) ]

\* mutant: a zero union counts as full overlap
IoUOfAreasZeroIsOne(intersectionArea, unionArea) ==
  IF unionArea = 0 THEN RInt(1) ELSE Rat(intersectionArea, unionArea)

\* line 20: unionArea === 0 ? 0 : intersectionArea / unionArea
IoUOfAreas(intersectionArea, unionArea) ==
  IF unionArea = 0 THEN RInt(0) ELSE Rat(intersectionArea, unionArea)

calculateIoU(poly1, poly2) ==
  LET b1 == getBox(poly1)
      b2 == getBox(poly2)
      interX == Max(0, Min(b1.maxX, b2.maxX) - Max(b1.minX, b2.minX))
      interY == Max(0, Min(b1.maxY, b2.maxY) - Max(b1.minY, b2.minY))
      intersectionArea == interX * interY
      area1 == (b1.maxX - b1.minX) * (b1.maxY - b1.minY)
      area2 == (b2.maxX - b2.minX) * (b2.maxY - b2.minY)
  IN IoUOfAreas(intersectionArea, area1 + area2 - intersectionArea)

\* mutant: the overlap has to exceed 1
IsMatchAboveOne(t, det) ==
  /\ t.issueType = det.issueType
  /\ RGt(calculateIoU(det.polygon_points, t.polygon), RInt(1))

\* line 30: the predicate of truth.issues.find
IsMatch(t, det) ==
  /\ t.issueType = det.issueType
  /\ RGt(calculateIoU(det.polygon_points, t.polygon), Rat(3, 10))

\* truth.issues.find: the position of the first match, 0 when there is none
FindMatch(truth, det) ==
  IF \E k \in DOMAIN truth.issues : IsMatch(truth.issues[k], det)
  THEN SetMin({ k \in DOMAIN truth.issues : IsMatch(truth.issues[k], det) })
  ELSE 0

RECURSIVE CountMatches(_, _, _, _)
\* lines 29-35: the forEach over the detections, accumulating tp and totalIoU
CountMatches(dets, truth, k, acc) ==
  IF k > Len(dets) THEN acc
  ELSE LET m == FindMatch(truth, dets[k])
       IN Then(IF m = 0 THEN acc
               ELSE [ tp |-> acc.tp + 1,
                      totalIoU |-> RAdd(acc.totalIoU,
                                        calculateIoU(dets[k].polygon_points,
                                                     truth.issues[m].polygon)) ],
               LAMBDA next : CountMatches(dets, truth, k + 1, next))

\* mutant: every result is paired with the first entry
TruthForFirst(truths, pos) == truths[1]

\* line 25: truths[i] || truths[0]
TruthFor(truths, pos) ==
  IF pos < Len(truths) THEN truths[pos + 1] ELSE truths[1]

\* mutant: an empty denominator gives 0
RatioOrOneZero(tp, n) == IF n = 0 THEN RInt(0) ELSE Rat(tp, n)

\* lines 36-37: length === 0 ? 1 : tp / length
RatioOrOne(tp, n) == IF n = 0 THEN RInt(1) ELSE Rat(tp, n)

\* lines 35-46: the entry of one image, from the counts of the forEach
EntryOf(truth, nDet, acc) ==
  LET nTruth == Len(truth.issues)
      precision == RatioOrOne(acc.tp, nDet)
      recall == RatioOrOne(acc.tp, nTruth)
      f1 == IF RAdd(precision, recall) = RInt(0) THEN RInt(0)
            ELSE RDiv(RMul(RInt(2), RMul(precision, recall)), RAdd(precision, recall))
  IN [ imageId |-> truth.id,
       metrics |-> [ precision |-> precision, recall |-> recall, f1 |-> f1,
                     meanIoU |-> IF acc.tp = 0 THEN RInt(0)
                                 ELSE RDiv(acc.totalIoU, RInt(acc.tp)) ],
       falsePositives |-> nDet - acc.tp,
       falseNegatives |-> nTruth - acc.tp ]

\* lines 24-47: the map callback for the result at list position pos
PerImage(res, truths, pos) ==
  Then(TruthFor(truths, pos), LAMBDA truth :
    Then(CountMatches(res.detectedIssues, truth, 1, [tp |-> 0, totalIoU |-> RInt(0)]),
         LAMBDA acc : EntryOf(truth, Len(res.detectedIssues), acc)))

RECURSIVE RSum(_, _)
RSum(nums, k) == IF k > Len(nums) THEN RInt(0) ELSE RAdd(nums[k], RSum(nums, k + 1))

RECURSIVE PerImageFrom(_, _, _)
\* results.map: the entries of the results from place k on, in order
PerImageFrom(results, truths, k) ==
  IF k > Len(results) THEN << >>
  ELSE Then(PerImage(results[k], truths, k - 1),
            LAMBDA entry : << entry >> \o PerImageFrom(results, truths, k + 1))

\* mutant: the mean is taken over the images with a non-zero value only
avgOfNonZero(nums) ==
  LET nz == SelectSeq(nums, LAMBDA x : x # RInt(0))
  IN IF Len(nz) = 0 THEN RInt(0) ELSE RDiv(RSum(nz, 1), RInt(Len(nz)))

\* line 48: reduce(...) / perImageResults.length
avg(nums) == RDiv(RSum(nums, 1), RInt(Len(nums)))

\* lines 48-54: the report built from the per-image entries
ReportOf(perImageResults) ==
  LET col(key) == [ k \in 1..Len(perImageResults) |-> perImageResults[k].metrics[key] ]
  IN [ overallMetrics |-> [ precision |-> avg(col("precision")),
                            recall |-> avg(col("recall")),
                            f1 |-> avg(col("f1")),
                            meanIoU |-> avg(col("meanIoU")) ],
       perImageResults |-> perImageResults ]

runFullBenchmark(results, truths) == Then(PerImageFrom(results, truths, 1), ReportOf)

\* ------------------------------------------------ inputs of the benchmark
GoldSquare == << <<100, 100>>, <<200, 100>>, <<200, 200>>, <<100, 200>> >>
ShiftedSquare == << <<150, 100>>, <<250, 100>>, <<250, 200>>, <<150, 200>> >>
FlatLine == << <<100, 100>>, <<150, 100>>, <<200, 100>> >>

Det(type, poly) == [ issueType |-> type, polygon_points |-> poly ]

Truth(type, poly) == [ part |-> "bumper", issueType |-> type, polygon |-> poly ]

DetChoices == { Det("Scratch", GoldSquare), Det("Scratch", ShiftedSquare),
                Det("Scratch", FlatLine) }

GOLDEN_DATASET == << [ id |-> "GOLD-01", issues |-> << Truth("Scratch", GoldSquare) >> ] >>

\* other ground-truth lists a caller can pass
TruthChoices ==
  { GOLDEN_DATASET,
    GOLDEN_DATASET \o << [ id |-> "GOLD-02", issues |-> << >> ] >>,
    << [ id |-> "GOLD-03",
         issues |-> << Truth("Dent", GoldSquare), Truth("Scratch", FlatLine) >> ] >> }

RECURSIVE ResultsOf(_, _)
\* the results of n images with at most d detections in all
ResultsOf(n, d) ==
  IF n = 0 THEN { << >> }
  ELSE UNION { { << [ detectedIssues |-> first ] >> \o rest :
                   rest \in ResultsOf(n - 1, d - Len(first)) } :
               first \in SeqUpTo(DetChoices, d) }

BenchResults == UNION { ResultsOf(n, MaxDets) : n \in 1..MaxImages }

\* polygons for calculateIoU on its own: every list of 3..MaxPts corner, edge
\* and interior points of the 0-1000 space
Coords == {0, 100, 1000}
Points == Coords \X Coords
Polygons == UNION { [1..n -> Points] : n \in 3..MaxPts }

BenchInputs ==
  /\ bResults \in BenchResults
  /\ bTruths \in TruthChoices
  /\ ioP = << >>
  /\ ioQ = << >>

IoUInputs ==
  /\ bResults = << >>
  /\ bTruths = << >>
  /\ ioP \in Polygons
  /\ ioQ \in {ioP, GoldSquare}

InitBench ==
  /\ build = "single"
  /\ faults = "transport"
  /\ Idle
  /\ ppIn = NoAnalysis
  /\ ppIndex = 0
  /\ ppOut = << >>
  /\ BenchInputs \/ IoUInputs
  /\ bReport = << >>
  /\ ioOut = << >>

\* App.tsx lines 73 and 81: with at least one analysed image,
\* runFullBenchmark(analyzedResults, GOLDEN_DATASET, ...)
RunBenchmark ==
  /\ Len(bResults) > 0
  /\ bReport = << >>
  /\ bReport' = << runFullBenchmark(bResults, bTruths) >>
  /\ UNCHANGED <<build, ppVars, bResults, bTruths, ioP, ioQ, ioOut, mainVars>>

\* one call of calculateIoU
CalculateIoU ==
  /\ Len(ioP) > 0
  /\ ioOut = << >>
  /\ ioOut' = << calculateIoU(ioP, ioQ) >>
  /\ UNCHANGED <<build, ppVars, bResults, bTruths, bReport, ioP, ioQ, mainVars>>

NextBench == RunBenchmark \/ CalculateIoU

SpecBench == InitBench /\ [][NextBench]_vars

\* ================================================================= claims
Logs == { batches[b].log : b \in DOMAIN batches }

Count(log, e) == Cardinality({ k \in DOMAIN log : log[k].ev = e })

QuotaMarkers == {"429", "RESOURCE_EXHAUSTED", "quota"}

QuotaClass(err) == err.text \cap QuotaMarkers # {}

CountQuotaFails(log) ==
  Cardinality({ k \in DOMAIN log : log[k].ev = "fail" /\ QuotaClass(log[k].err) })

\* the images handed to the provider by some call of some logical batch
SubmittedImages == { sk[2] : sk \in submitted }

MaxAttemptsOf(bld) == IF bld = "batched" THEN maxAttemptsBatched ELSE maxAttemptsSingle

\* C1: in the batched run loop, as long as no logical batch has ended in a
\* terminal failure, every image the loop has advanced past was part of a
\* provider call that was answered (not rejected with a quota error); at the
\* end of such a run this is every image of the input list.
C1_NoImageLost ==
  (build = "batched" /\ ~ anyFailed)
    => /\ \A k \in 0..(i - 1) : k < nFiles => k \in answered
       /\ pc = "done" => \A k \in 0..(nFiles - 1) : k \in answered

AllIssues(ir) ==
  { <<p, k>> \in (1..Len(ir)) \X (1..4) : k \in DOMAIN ir[p].detectedIssues }

\* C2: when all N validated issues of a finished run share one
\* (part, issueType), the result holds exactly one ConsolidatedIssue and its
\* total_instances is N.
C2_CountsEveryInstance ==
  LET iss == AllIssues(imageResults)
      N == Cardinality(iss)
  IN (/\ pc = "done"
      /\ N >= 1
      /\ \A x \in iss, y \in iss :
           SameKey(imageResults[x[1]].detectedIssues[x[2]],
                   imageResults[y[1]].detectedIssues[y[2]]))
       => /\ Len(consolidated) = 1
          /\ consolidated[1].total_instances = N

\* C3: while a logical batch of the batched gateway is being retried, after
\* k quota failures the batch size is max(MIN_BATCH_SIZE, initial div 2^k),
\* and a batch size at the floor stays there.
C3_SchedulerFloor ==
  /\ [](build = "batched" /\ pc \in {"calling", "sleeping"}
          => CURRENT_BATCH_SIZE
               = Max(MIN_BATCH_SIZE, batchSize \div Pow2(attempts)))
  /\ [][CURRENT_BATCH_SIZE = MIN_BATCH_SIZE
          => CURRENT_BATCH_SIZE' = MIN_BATCH_SIZE]_vars

\* four quota failures in one batch that started at the default size
C3_Witness ==
  /\ build = "batched" /\ pc = "calling"
  /\ attempts = maxAttemptsBatched - 1
  /\ batchSize = DEFAULT_BATCH_SIZE
  /\ CURRENT_BATCH_SIZE = MIN_BATCH_SIZE

\* C4: the batch size is never below the floor and no step increases it.
C4_FloorAndNoGrowth ==
  /\ [](CURRENT_BATCH_SIZE >= MIN_BATCH_SIZE)
  /\ [][CURRENT_BATCH_SIZE' <= CURRENT_BATCH_SIZE]_vars

\* a shrunk size survives a success, a terminal failure and a new batch
C4_Witness ==
  /\ build = "batched" /\ pc = "calling"
  /\ Len(batches) = 2
  /\ Len(imageResults) >= 1
  /\ batches[1].status = "failed"
  /\ batches[2].start > 0
  /\ CURRENT_BATCH_SIZE < DEFAULT_BATCH_SIZE

\* C5: every logical batch makes at most maxAttempts provider calls and at
\* most maxAttempts - 1 sleeps; when maxAttempts calls failed with a quota
\* error the batch has thrown, nothing follows the throw, and (batched build)
\* the loop has gone on to the images after that batch.
C5_BoundedRetries ==
  \A b \in DOMAIN batches :
    LET log == batches[b].log
        m == MaxAttemptsOf(build)
    IN /\ Count(log, "call") <= m
       /\ Count(log, "sleep") <= m - 1
       /\ \A k \in DOMAIN log : log[k].ev = "throw" => k = Len(log)
       /\ CountQuotaFails(log) = m
            => /\ batches[b].status = "failed"
               /\ log[Len(log)].ev = "throw"
               /\ pc # "error" \/ Len(imageResults) = 0
               /\ build = "batched" =>
                    \/ batches[b].start + batches[b].len >= nFiles /\ pc = "done"
                    \/ Len(batches) > b

\* a batch whose maxAttempts calls all failed with a quota error
C5_Witness ==
  \E b \in DOMAIN batches :
    /\ Count(batches[b].log, "call") = MaxAttemptsOf(build)
    /\ CountQuotaFails(batches[b].log) = MaxAttemptsOf(build)
    /\ Count(batches[b].log, "sleep") = MaxAttemptsOf(build) - 1

\* the records of the next state that continue the log of batch b
After(b) ==
  { c \in DOMAIN batches' :
      /\ batches'[c].start = batches[b].start
      /\ Len(batches'[c].log) > Len(batches[b].log)
      /\ SubSeq(batches'[c].log, 1, Len(batches[b].log)) = batches[b].log }

\* C6: a non-quota error is rethrown at once: the step that records the
\* failed call adds only the failure and the throw of the same error (no
\* call, no notification, no sleep) and leaves the batch size unchanged.
C6_NonQuotaPropagates ==
  [][\A b \in DOMAIN batches : \A c \in After(b) :
       LET old == batches[b].log
           new == batches'[c].log
       IN (new[Len(old) + 1].ev = "fail" /\ ~ QuotaClass(new[Len(old) + 1].err))
            => /\ Len(new) = Len(old) + 2
               /\ new[Len(old) + 2] = EvErr("throw", new[Len(old) + 1].err)
               /\ batches'[c].status = "failed"
               /\ CURRENT_BATCH_SIZE' = CURRENT_BATCH_SIZE]_vars

\* a batch that was retried after a quota error and then hit a non-quota error
C6_Witness ==
  \E b \in DOMAIN batches :
    LET log == batches[b].log
    IN /\ Len(log) >= 5
       /\ Count(log, "sleep") >= 1
       /\ log[Len(log) - 1].ev = "fail"
       /\ ~ QuotaClass(log[Len(log) - 1].err)
       /\ log[Len(log)].ev = "throw"

\* the current batch of the batched loop ends in a terminal failure
BatchFailsStep ==
  /\ build = "batched"
  /\ pc \in {"calling", "sleeping"}
  /\ \E c \in DOMAIN batches' :
       /\ batches'[c].start = CurBatch.start
       /\ batches'[c].status = "failed"

\* C7: when a logical batch of the batched loop fails terminally, the records
\* of earlier batches are kept, the offset moves past the images of that
\* batch, and the run goes on: either the next batch starts there with the
\* current batch size, or the run returns its result.
C7_FailureDoesNotAbort ==
  [][BatchFailsStep =>
       /\ imageResults' = imageResults
       /\ i' = Min(i + batchSize, nFiles)
       /\ IF i' < nFiles
          THEN LET nb == batches'[Len(batches')]
               IN /\ pc' = "calling"
                  /\ batchSize' = CURRENT_BATCH_SIZE'
                  /\ nb.start = i'
                  /\ nb.status = "active"
                  /\ nb.log = << Ev("call", i', CURRENT_BATCH_SIZE') >>
          ELSE /\ pc' = "done"
               /\ consolidated' = ConsolidationPass(imageResults)]_vars

\* records were appended before, the latest finished batch failed after a
\* backoff, and a further batch runs at a shrunk size
C7_Witness ==
  /\ build = "batched" /\ pc = "calling"
  /\ Len(batches) = 2
  /\ Len(imageResults) >= 1
  /\ batches[1].status = "failed"
  /\ Count(batches[1].log, "sleep") >= 1
  /\ batches[2].start > 0
  /\ batchSize < DEFAULT_BATCH_SIZE

\* C8: whenever an observer is supplied, every successful provider call is
\* directly followed by a report of zero wait to it.
C8_ZeroAfterSuccess ==
  onQuotaStatus =>
    \A b \in DOMAIN batches :
      LET log == batches[b].log
      IN \A k \in DOMAIN log :
           log[k].ev = "ok" =>
             /\ k < Len(log)
             /\ log[k + 1].ev = "notify"
             /\ log[k + 1].a = 0

\* C9: with an observer supplied, every backoff sleep directly follows exactly
\* one notification of a positive wait of ceil(cooldown / 1000) seconds, and
\* every positive notification is directly followed by a sleep.
C9_NoticeBeforeSleep ==
  onQuotaStatus =>
    \A b \in DOMAIN batches :
      LET log == batches[b].log
      IN \A k \in DOMAIN log :
           /\ log[k].ev = "sleep" =>
                /\ k >= 3
                /\ log[k - 1].ev = "notify"
                /\ log[k - 1].a > 0
                /\ log[k - 1].a * 1000 >= QUOTA_COOLDOWN_MS
                /\ (log[k - 1].a - 1) * 1000 < QUOTA_COOLDOWN_MS
                /\ log[k - 2].ev = "fail"
           /\ (log[k].ev = "notify" /\ log[k].a > 0) =>
                /\ k < Len(log)
                /\ log[k + 1].ev = "sleep"

\* an observed batch that slept twice
C9_Witness ==
  /\ onQuotaStatus
  /\ \E b \in DOMAIN batches :
       /\ Count(batches[b].log, "sleep") >= 2
       /\ Count(batches[b].log, "notify") >= 2

\* C10: at most one provider call is in flight at any time.
C10_OneCallInFlight == inFlight <= 1

\* C11: every run of the batched gateway issues its first provider call with
\* the configured default batch size, whatever earlier runs went through.
C11_RunStartsAtDefault ==
  (build = "batched" /\ pc = "calling" /\ i = 0 /\ attempts = 0)
    => batchSize = DEFAULT_BATCH_SIZE

StrictlyIncreasing(ir) ==
  \A p \in DOMAIN ir, q \in DOMAIN ir : p < q => ir[p].imageIndex < ir[q].imageIndex

\* C12: as long as no call of the run returned more results than images were
\* sent, the imageIndex values of the run's list are strictly increasing in
\* append order; and the records a call appends carry list indices of images
\* that were sent in that call (batched build: the slice of the answered
\* call; single-image build: the file the call was made for).
C12_SubmissionOrder ==
  /\ [](~ overReturned => StrictlyIncreasing(imageResults))
  /\ [][(/\ build = "batched"
         /\ pc = "calling" /\ pc' = "pause"
         /\ Len(imageResults') - Len(imageResults)
              <= Cardinality(SliceIdx(nFiles, i, CURRENT_BATCH_SIZE)))
          => \A p \in (Len(imageResults) + 1)..Len(imageResults') :
               imageResults'[p].imageIndex \in SliceIdx(nFiles, i, CURRENT_BATCH_SIZE)]_vars
  /\ [][build = "single"
          => \A k \in DOMAIN files' :
               (k \in DOMAIN files /\ files'[k].analysis # files[k].analysis)
                 => /\ gw[k].pc = "calling"
                    /\ files'[k].analysis[1].imageIndex = k - 1]_vars

\* a finished run whose records came from two answered batches
C12_Witness ==
  /\ build = "batched" /\ pc = "done"
  /\ ~ overReturned
  /\ Len(batches) = 2
  /\ batches[1].status = "ok" /\ batches[2].status = "ok"
  /\ Len(imageResults) >= 3

\* C13: in the result of a finished run no two ConsolidatedIssue entries have
\* the same (part, issueType) key.
C13_UniqueKeys ==
  pc = "done"
    => \A p \in DOMAIN consolidated, q \in DOMAIN consolidated :
         p # q => ~ SameKey(consolidated[p], consolidated[q])

RECURSIVE FlatIssues(_, _)
\* the validated issues of a list of ImageAnalysis in processing order, each
\* with the imageIndex of the record it belongs to
FlatIssues(ir, p) ==
  IF p > Len(ir) THEN << >>
  ELSE [ k \in 1..Len(ir[p].detectedIssues) |->
           [ imageIndex |-> ir[p].imageIndex, issue |-> ir[p].detectedIssues[k] ] ]
       \o FlatIssues(ir, p + 1)

\* the issues that contribute to the consolidated entry c
Contributing(ir, c) == SelectSeq(FlatIssues(ir, 1), LAMBDA x : SameKey(c, x.issue))

RECURSIVE SumFrom(_, _)
SumFrom(nums, k) == IF k > Len(nums) THEN 0 ELSE nums[k] + SumFrom(nums, k + 1)

\* C14: in the result of a finished run, evidence_indices of every
\* ConsolidatedIssue lists, in processing order, the imageIndex of the record
\* of each issue that has its key.
C14_EvidenceIsImageIndex ==
  pc = "done"
    => \A p \in DOMAIN consolidated :
         LET w == Contributing(imageResults, consolidated[p])
         IN consolidated[p].evidence_indices = [ k \in 1..Len(w) |-> w[k].imageIndex ]

Costs(w) == [ k \in 1..Len(w) |-> w[k].issue.estimated_cost ]
LaborHours(w) == [ k \in 1..Len(w) |-> w[k].issue.labor_hours ]
RefinishHours(w) == [ k \in 1..Len(w) |-> w[k].issue.refinish_hours ]
ConsolidatedCosts(cons) == [ k \in 1..Len(cons) |-> cons[k].consolidated_cost ]

\* C15: in the result of a finished run, every ConsolidatedIssue carries the
\* maximum confidence and the summed labor hours, refinish hours and cost of
\* all issues with its key, and the consolidated costs add up to the cost of
\* all validated issues of the case.
C15_TotalsOverAllIssues ==
  pc = "done"
    => /\ \A p \in DOMAIN consolidated :
            LET c == consolidated[p]
                w == Contributing(imageResults, c)
            IN /\ \A k \in DOMAIN w : c.max_confidence >= w[k].issue.confidence
               /\ \E k \in DOMAIN w : c.max_confidence = w[k].issue.confidence
               /\ c.total_labor_hours = SumFrom(LaborHours(w), 1)
               /\ c.total_refinish_hours = SumFrom(RefinishHours(w), 1)
               /\ c.consolidated_cost = SumFrom(Costs(w), 1)
       /\ SumFrom(ConsolidatedCosts(consolidated), 1)
            = SumFrom(Costs(FlatIssues(imageResults, 1)), 1)

\* the raw detection a validated issue was made from
RawOf(issue) == Raw(issue.polygon_points, issue.confidence)

RawsOf(issues) == [ k \in 1..Len(issues) |-> RawOf(issues[k]) ]

HasPolygon(r) == Len(r.polygon_points) >= 3

\* twice the centre of the bounding box of a polygon
BoxCentre2(poly) ==
  LET xs == { poly[k][1] : k \in DOMAIN poly }
      ys == { poly[k][2] : k \in DOMAIN poly }
  IN << SetMin(xs) + SetMax(xs), SetMin(ys) + SetMax(ys) >>

\* the edges of the hull that the ray from the doubled point p2 towards
\* larger x crosses: one end strictly above the ray, the other not, and the
\* crossing point to the right of p2
Crossings(p2, hull) ==
  { k \in DOMAIN hull :
      LET a == hull[k]
          b == hull[(k % Len(hull)) + 1]
          dy == 2 * b[2] - 2 * a[2]
          lhs == 2 * a[1] * dy + (p2[2] - 2 * a[2]) * (2 * b[1] - 2 * a[1])
      IN /\ (2 * a[2] > p2[2]) # (2 * b[2] > p2[2])
         /\ IF dy > 0 THEN lhs > p2[1] * dy ELSE lhs < p2[1] * dy }

\* even-odd rule
InsideEvenOdd(p2, hull) == Cardinality(Crossings(p2, hull)) % 2 = 1

PassesGate(r, hull) ==
  Len(hull) <= 2 \/ InsideEvenOdd(BoxCentre2(r.polygon_points), hull)

\* C16: the V9.1 post-processor keeps, of the raw issues that have a polygon
\* of at least 3 points, exactly those for which the hull has at most 2 points
\* or the centre of the bounding box is inside the hull by the even-odd rule,
\* in their order.
C16_SubjectIsolationGate ==
  (build = "V9.1" /\ ppOut # << >>)
    => SelectSeq(RawsOf(ppOut[1].detectedIssues), HasPolygon)
         = SelectSeq(ppIn.detectedIssues,
                     LAMBDA r : HasPolygon(r) /\ PassesGate(r, ppIn.vehicle_hull))

\* an L-shaped hull: one issue inside it, one in the notch (inside the
\* bounding box of the hull, outside the hull), one outside
C16_Witness ==
  /\ build = "V9.1" /\ ppOut # << >>
  /\ ppIn.vehicle_hull = HullL
  /\ ppIn.detectedIssues = << Raw(PolyNotch, 80), Raw(PolyIn, 95), Raw(PolyOut, 95) >>
  /\ Len(ppOut[1].detectedIssues) = 1

\* C17: no detection whose polygon is missing or has fewer than 3 points is
\* in detectedIssues, and the audit trail is the one the post-processor
\* gives for the response without those detections.
C17_DegenerateDiscarded ==
  ppOut # << >>
    => /\ \A k \in DOMAIN ppOut[1].detectedIssues :
            HasPolygon(ppOut[1].detectedIssues[k])
       /\ ppOut[1].audit_trail
            = PostProcessOf(build,
                [ ppIn EXCEPT !.detectedIssues = SelectSeq(@, HasPolygon) ],
                ppIndex).audit_trail

\* C18: an issue of the post-processor's result is verified exactly when its
\* confidence is at least 0.9, and provisional otherwise.
C18_VerifiedFromThreshold ==
  ppOut # << >>
    => \A k \in DOMAIN ppOut[1].detectedIssues :
         LET issue == ppOut[1].detectedIssues[k]
         IN issue.status = IF issue.confidence >= 90 THEN "verified" ELSE "provisional"

\* C19: no two issues of one post-processor result have the same id.
C19_UniqueIds ==
  ppOut # << >>
    => \A p \in DOMAIN ppOut[1].detectedIssues, q \in DOMAIN ppOut[1].detectedIssues :
         p # q => ppOut[1].detectedIssues[p].id # ppOut[1].detectedIssues[q].id

\* a detection dropped for its polygon or by the hull gate sits between two
\* that are kept
C19_Witness ==
  /\ build = "V9.1" /\ ppOut # << >>
  /\ ppIn.vehicle_hull = HullSquare
  /\ Len(ppIn.detectedIssues) = 3
  /\ ~ HasPolygon(ppIn.detectedIssues[2]) \/ ~ PassesGate(ppIn.detectedIssues[2], HullSquare)
  /\ Len(ppOut[1].detectedIssues) = 2

\* C20: a call whose response fails to parse is not retried: in every log the
\* record of a parse failure is directly followed by the throw of that error
\* (no notification, no sleep, no further call of that logical batch or file).
C20_ParseErrorNotRetried ==
  \A b \in DOMAIN batches :
    LET log == batches[b].log
    IN \A k \in DOMAIN log :
         (log[k].ev = "fail" /\ log[k].err.name = "SyntaxError")
           => /\ k < Len(log)
              /\ log[k + 1] = EvErr("throw", log[k].err)

\* C21: a run ends in an error only when none of its images yielded an
\* ImageAnalysis.
C21_ErrorOnlyWhenNothingProcessed ==
  pc = "error" => Len(imageResults) = 0

\* ------------------------------------------------------------ benchmark
Report == bReport[1]

\* the ground-truth set the claim pairs with the result at 1-based place k
PairedTruth(k) == IF k <= Len(bTruths) THEN bTruths[k] ELSE bTruths[1]

Dets(k) == bResults[k].detectedIssues

\* the x and y extents of a polygon are both positive
HasArea(poly) ==
  /\ \E a, b \in DOMAIN poly : poly[a][1] # poly[b][1]
  /\ \E a, b \in DOMAIN poly : poly[a][2] # poly[b][2]

HasNoArea(poly) ==
  \/ \A a, b \in DOMAIN poly : poly[a][1] = poly[b][1]
  \/ \A a, b \in DOMAIN poly : poly[a][2] = poly[b][2]

\* the detections of image k the report counted as true positives
TruePositives(k) == Len(Dets(k)) - Report.perImageResults[k].falsePositives

MetricKeys == {"precision", "recall", "f1", "meanIoU"}

\* sum of the per-image values of one metric, image by image
RECURSIVE MetricSum(_, _)
MetricSum(key, k) ==
  IF k = 0 THEN RInt(0)
  ELSE RAdd(Report.perImageResults[k].metrics[key], MetricSum(key, k - 1))

ImageA == [ detectedIssues |-> << Det("Scratch", GoldSquare) >> ]
ImageB == [ detectedIssues |-> << >> ]
ScenarioAB ==
  /\ bResults = << ImageA, ImageB >>
  /\ bTruths = GOLDEN_DATASET \o << [ id |-> "GOLD-02", issues |-> << >> ] >>

\* C22: every overall metric is the arithmetic mean of the per-image values
\* of that metric, each image counting once; image A (one detection matched
\* at IoU 1 against its single ground-truth issue) and image B (no detection,
\* no ground truth) give precision = recall = f1 = 1 and meanIoU = 1/2.
C22_MacroAverage ==
  bReport # << >> =>
    /\ \A key \in MetricKeys :
         RMul(Report.overallMetrics[key], RInt(Len(bResults)))
           = MetricSum(key, Len(bResults))
    /\ ScenarioAB =>
         Report.overallMetrics = [ precision |-> RInt(1), recall |-> RInt(1),
                                   f1 |-> RInt(1), meanIoU |-> Rat(1, 2) ]

C22_Witness ==
  /\ bReport # << >>
  /\ ScenarioAB
  /\ Report.perImageResults[1].metrics.meanIoU = RInt(1)
  /\ Report.perImageResults[2].metrics.meanIoU = RInt(0)

\* C23: an image with no detection paired with a ground-truth set with no
\* issue gets precision = recall = f1 = 1, meanIoU = 0, falsePositives = 0
\* and falseNegatives = 0.
C23_VacuousCase ==
  bReport # << >> =>
    \A k \in DOMAIN bResults :
      (Len(Dets(k)) = 0 /\ Len(PairedTruth(k).issues) = 0) =>
        /\ Report.perImageResults[k].metrics =
             [ precision |-> RInt(1), recall |-> RInt(1), f1 |-> RInt(1),
               meanIoU |-> RInt(0) ]
        /\ Report.perImageResults[k].falsePositives = 0
        /\ Report.perImageResults[k].falseNegatives = 0

C23_Witness ==
  /\ bReport # << >>
  /\ \E k \in DOMAIN bResults :
       Len(Dets(k)) = 0 /\ Len(PairedTruth(k).issues) = 0

\* detections of image k whose polygon equals the polygon of a ground-truth
\* issue of the same issueType in the paired set
ExactMatches(k) ==
  { d \in DOMAIN Dets(k) :
      \E t \in DOMAIN PairedTruth(k).issues :
        /\ PairedTruth(k).issues[t].issueType = Dets(k)[d].issueType
        /\ PairedTruth(k).issues[t].polygon = Dets(k)[d].polygon_points }

\* the same, for polygons whose bounding box has a positive area
ExactAreaMatches(k) ==
  { d \in ExactMatches(k) : HasArea(Dets(k)[d].polygon_points) }

\* every detection in the set has an IoU above 0.3 with itself, and the
\* report counts at least that many true positives
AllTruePositives(k, ds) ==
  /\ \A d \in ds :
       RGt(calculateIoU(Dets(k)[d].polygon_points, Dets(k)[d].polygon_points),
           Rat(3, 10))
  /\ TruePositives(k) >= Cardinality(ds)

\* C24 as stated: every detection whose polygon equals the polygon of a
\* ground-truth issue of the same issueType in the paired set has IoU > 0.3
\* with it and is counted as a true positive.
C24_ExactMatchIsTruePositive ==
  bReport # << >> =>
    \A k \in DOMAIN bResults : AllTruePositives(k, ExactMatches(k))

\* C24 amended: the same for the detections whose polygon has a bounding box
\* of positive area.
C24_ExactAreaMatchIsTruePositive ==
  bReport # << >> =>
    \A k \in DOMAIN bResults : AllTruePositives(k, ExactAreaMatches(k))

C24_Witness ==
  /\ bReport # << >>
  /\ \E k \in DOMAIN bResults :
       /\ ExactAreaMatches(k) # {}
       /\ TruePositives(k) >= 1

\* C25 as stated: calculateIoU(P, P) = 1 for every polygon P of at least 3
\* points in the 0-1000 space, collinear or coinciding points included.
C25_SelfIoUIsOne ==
  (ioOut # << >> /\ ioP = ioQ /\ Len(ioP) >= 3) => ioOut[1] = RInt(1)

\* C25 amended: calculateIoU(P, P) is 1 when the bounding box of P has a
\* positive area and 0 when it has none.
C25_SelfIoUIsOneWithArea ==
  (ioOut # << >> /\ ioP = ioQ /\ Len(ioP) >= 3) =>
    /\ HasArea(ioP) => ioOut[1] = RInt(1)
    /\ HasNoArea(ioP) => ioOut[1] = RInt(0)

\* calculateIoU has compared an axis-parallel line of distinct points with itself
C25_Witness ==
  /\ ioOut # << >>
  /\ ioP = ioQ
  /\ Len(ioP) >= 3
  /\ HasNoArea(ioP)
  /\ ioP[1] # ioP[2]

\* C26: the result at place i is scored against truths[i] when the list is
\* long enough and against truths[0] otherwise; with GOLDEN_DATASET every
\* image is scored against GOLD-01; the report has one entry per result, in
\* the order of the results.
C26_PairingAndOrder ==
  bReport # << >> =>
    /\ Len(Report.perImageResults) = Len(bResults)
    /\ \A k \in DOMAIN bResults :
         /\ Report.perImageResults[k].imageId = PairedTruth(k).id
         /\ Report.perImageResults[k].falsePositives
              + Report.perImageResults[k].falseNegatives
              = Len(Dets(k)) + Len(PairedTruth(k).issues) - 2 * TruePositives(k)
         /\ Report.perImageResults[k].falsePositives \in 0..Len(Dets(k))
         /\ bTruths = GOLDEN_DATASET =>
              Report.perImageResults[k].imageId = "GOLD-01"

\* two results with different numbers of detections scored against the
\* one-entry GOLDEN_DATASET
C26_Witness ==
  /\ bReport # << >>
  /\ Len(bResults) = 2
  /\ bTruths = GOLDEN_DATASET
  /\ Report.perImageResults[2].imageId = "GOLD-01"
  /\ Len(Dets(1)) # Len(Dets(2))

\* C30: for every image the number of true positives is at most the number
\* of ground-truth issues of the paired set, recall is within [0, 1] and
\* falseNegatives is not negative.
C30_TruePositivesBounded ==
  bReport # << >> =>
    \A k \in DOMAIN bResults :
      /\ TruePositives(k) <= Len(PairedTruth(k).issues)
      /\ ~ RGt(Report.perImageResults[k].metrics.recall, RInt(1))
      /\ ~ RGt(RInt(0), Report.perImageResults[k].metrics.recall)
      /\ Report.perImageResults[k].falseNegatives >= 0

\* ------------------------------------------- termination and batch ranges
\* C27: a run of analyzeVehicleCondition that has started returns a result,
\* whatever the provider calls do, as long as each call settles and each
\* timer fires.
C27_RunTerminates ==
  (build = "batched" /\ pc \in {"calling", "sleeping", "pause"}) ~> (pc = "done")

\* a run that met a quota retry and a terminal failure and still returned
\* with a record
C27_Witness ==
  /\ build = "batched" /\ pc = "done"
  /\ anyFailed
  /\ Len(imageResults) >= 1
  /\ \E b \in DOMAIN batches : CountQuotaFails(batches[b].log) >= 1

\* the images the loop advances past for the logical batch that starts at s
\* when the offset moves on by len
RangeOf(s, len) == s..(s + len - 1)

\* C28: no image is submitted by two different logical batches of a run;
\* every image a batch submits lies in the range the loop advances past for
\* that batch; and, as long as no call returned more results than images
\* were sent, no two records of the run's list have the same imageIndex.
C28_BatchesDisjoint ==
  build = "batched" =>
    /\ \A x \in submitted, y \in submitted : x[2] = y[2] => x[1] = y[1]
    /\ \A b \in DOMAIN batches :
         \A x \in submitted :
           x[1] = batches[b].start => x[2] \in RangeOf(batches[b].start, batches[b].len)
    /\ ~ overReturned =>
         \A p \in DOMAIN imageResults, q \in DOMAIN imageResults :
           imageResults[p].imageIndex = imageResults[q].imageIndex => p = q

\* a finished run of two logical batches, one of them retried, with records
\* from both
C28_Witness ==
  /\ build = "batched" /\ pc = "done"
  /\ ~ overReturned
  /\ Cardinality({ x[1] : x \in submitted }) >= 2
  /\ Len(imageResults) >= 2
  /\ \E b \in DOMAIN batches : CountQuotaFails(batches[b].log) >= 1

\* the provider calls of a batch log, in order: <<offset, size>> of each
CallsOf(log) ==
  LET calls == SelectSeq(log, LAMBDA e : e.ev = "call")
  IN [ k \in 1..Len(calls) |-> << calls[k].a, calls[k].b >> ]

\* the list indices of files.slice(from, from + size)
SliceOf(from, size) == { k \in 0..(nFiles - 1) : from <= k /\ k < from + size }

Halved(c) == IF c \div 2 >= 1 THEN c \div 2 ELSE 1

\* C29: within a logical batch every retry calls with the offset of the
\* failed attempt and with the halved batch size (floored at 1), which is
\* smaller unless the floor was reached, so its image set is a prefix of the
\* previous one; and the offset changes only in a step that finishes the
\* current batch (or starts a run).
C29_RetrySameOffset ==
  /\ [](build = "batched" =>
          \A b \in DOMAIN batches :
            LET calls == CallsOf(batches[b].log)
            IN \A k \in 1..(Len(calls) - 1) :
                 /\ calls[k + 1][1] = calls[k][1]
                 /\ calls[k + 1][1] = batches[b].start
                 /\ calls[k + 1][2] = Halved(calls[k][2])
                 /\ calls[k][2] > 1 => calls[k + 1][2] < calls[k][2]
                 /\ SliceOf(calls[k + 1][1], calls[k + 1][2])
                      \subseteq SliceOf(calls[k][1], calls[k][2])
                 /\ \A x \in SliceOf(calls[k][1], calls[k][2]),
                       y \in SliceOf(calls[k + 1][1], calls[k + 1][2]) :
                       x < y => x \in SliceOf(calls[k + 1][1], calls[k + 1][2]))
  /\ [][(build = "batched" /\ i' # i) =>
          \/ pc \in {"idle", "done"}
          \/ /\ pc \in {"calling", "sleeping"}
             /\ CurBatch.status = "active"
             /\ \E b \in DOMAIN batches' :
                  /\ batches'[b].start = i
                  /\ batches'[b].status \in {"ok", "failed"}]_vars

\* a batch whose log holds three calls: two retries at the same offset
C29_Witness ==
  /\ build = "batched"
  /\ nFiles >= 2
  /\ \E b \in DOMAIN batches :
       /\ Len(CallsOf(batches[b].log)) >= 3
       /\ batches[b].status = "ok"
       /\ i > batches[b].start

====
